---- MODULE Spec2Model ----
(***************************************************************************)
(* Topic-evolution page (src/app.js): the loader/validator, the series and *)
(* annotation builders, the initialization sequence and the debounced      *)
(* resize listener, as a state machine.                                    *)
(*                                                                         *)
(* JavaScript values are modelled structurally.  A parsed JSON root is a   *)
(* record [kind, years, categories, markers]; a message is the sequence of *)
(* the parts of the template literal that builds it.                       *)
(***************************************************************************)
EXTENDS Integers, Sequences, FiniteSets, TLC

VARIABLES
    pc,            \* position of initializeApp / loadTopicData / renderChart
    AppState,      \* the global AppState object (data, isLoading, error, chartInstance)
    chartElement,  \* the #evolution-chart element: exists, state, message
    response,      \* loadTopicData's local `response` (what fetch resolved with)
    parsed,        \* loadTopicData's local `data` (result of response.json())
    loadResult,    \* what loadTopicData returned to initializeApp
    traces,        \* renderChart's local `traces`
    annotations,   \* layout.annotations built for the render
    built,         \* which builders have run ("...2": more than once)
    plotCalls,     \* number of Plotly.newPlot invocations
    listeners,     \* number of registered resize listeners
    timeout,       \* debounce closure: is a timer pending
    timers,        \* delays (ms) left on the timers setTimeout has pending
    sinceResize,   \* ms since the last resize event (-1: none yet)
    burstEvents,   \* resize events since the debounced callback last ran
    callbackRuns,  \* runs of the debounced callback since the last resize event
    resizeCalls,   \* Plotly.Plots.resize invocations since the last resize event
    logged,        \* contexts passed to logError so far
    escaped        \* functions an exception has propagated out of

debounceVars == <<timers, sinceResize, burstEvents, callbackRuns, resizeCalls>>

vars == <<pc, AppState, chartElement, response, parsed, loadResult, traces, annotations,
          built, plotCalls, listeners, timeout, debounceVars, logged, escaped>>

-----------------------------------------------------------------------------
(* Bounds of the model *)

MaxYears == 2

MaxCats == 2

BuildCats == 3

MaxBurst == 3

-----------------------------------------------------------------------------
(* Generic helpers *)

Range(s) == {s[i] : i \in 1..Len(s)}

SeqsUpTo(S, n) == UNION {[1..k -> S] : k \in 0..n}

Distinct(s) == \A i, j \in 1..Len(s) : i # j => s[i] # s[j]

RECURSIVE SumSeq(_)
SumSeq(s) == IF s = <<>> THEN 0 ELSE s[1] + SumSeq(Tail(s))

-----------------------------------------------------------------------------
(* JavaScript values *)

\* years: absent (undefined), falsy (0, "", null, false), scalar (a truthy
\* non-array), or an array of numbers
YearsAbsent == [kind |-> "absent", items |-> <<>>]
YearsFalsy == [kind |-> "falsy", items |-> <<>>]
YearsScalar == [kind |-> "scalar", items |-> <<>>]
YearsArray(s) == [kind |-> "array", items |-> s]

\* a category's value: an array of numbers, or something that is not an array
NotArray == [isArray |-> FALSE, items |-> <<>>]
ValueArray(s) == [isArray |-> TRUE, items |-> s]

\* categories: absent, falsy, a truthy number/boolean, a string, an array or
\* an object; entries are the own properties in creation order
CatsAbsent == [kind |-> "absent", entries |-> <<>>]
CatsFalsy == [kind |-> "falsy", entries |-> <<>>]
CatsNumber == [kind |-> "number", entries |-> <<>>]
CatsOf(k, es) == [kind |-> k, entries |-> es]

MarkersAbsent == [kind |-> "absent", map |-> <<>>]
MarkersObject(m) == [kind |-> "object", map |-> m]

JNull == [kind |-> "null", years |-> YearsAbsent, categories |-> CatsAbsent,
          markers |-> MarkersAbsent]
JScalar == [kind |-> "scalar", years |-> YearsAbsent, categories |-> CatsAbsent,
            markers |-> MarkersAbsent]
JObject(y, c, m) == [kind |-> "object", years |-> y, categories |-> c, markers |-> m]

\* canonical array-index property names ("0", "1", ...), in numeric order
IndexNames == <<"0", "1", "2", "3", "4", "5", "6", "7", "8", "9">>

IsArrayIndex(name) == name \in Range(IndexNames)

ArrayIndex(name) == CHOOSE i \in 1..Len(IndexNames) : IndexNames[i] = name

Truthy(v) == v.kind \notin {"absent", "falsy"}

-----------------------------------------------------------------------------
(* Errors and messages *)

NoError == [name |-> "null", message |-> <<>>]
Err(n, m) == [name |-> n, message |-> m]

MsgInvalidFormat == <<"Invalid data format: missing required fields">>
MsgInconsistent(category) == <<"Data inconsistency in category: ", category>>
MsgHttp(status, statusText) == <<"HTTP ", status, ": ", statusText>>
MsgFetch == <<"Failed to fetch">>
MsgSyntax == <<"Unexpected token in JSON">>
MsgNullRead == <<"Cannot read properties of null (reading 'years')">>
MsgDefault == <<"Failed to load data">>
MsgRender == <<"Failed to render chart visualization">>
MsgInit == <<"Application failed to initialize">>
MsgLoadRequired == <<"Failed to load required data">>

-----------------------------------------------------------------------------
(* Object.entries: own enumerable string-keyed properties.  For an ordinary *)
(* object the array-index names come first in ascending numeric order, then *)
(* the other names in creation order; an array or a string enumerates its   *)
(* indices; a number or boolean has no own properties.                      *)

RECURSIVE SortByIndex(_)
SortByIndex(es) ==
    IF es = <<>> THEN <<>>
    ELSE LET least == CHOOSE i \in 1..Len(es) :
                          \A j \in 1..Len(es) :
                              ArrayIndex(es[i].name) <= ArrayIndex(es[j].name)
             rest == [k \in 1..(Len(es) - 1) |-> IF k < least THEN es[k] ELSE es[k + 1]]
         IN <<es[least]>> \o SortByIndex(rest)

HasIndexName(e) == IsArrayIndex(e.name)

HasPlainName(e) == ~IsArrayIndex(e.name)

ObjectEntries(c) ==
    IF c.kind = "object"
    THEN SortByIndex(SelectSeq(c.entries, HasIndexName)) \o SelectSeq(c.entries, HasPlainName)
    ELSE c.entries

\* data.categories[name]: 0 when there is no such own property, else the
\* position of the entry in ObjectEntries
PropertyIndex(c, name) ==
    LET es == ObjectEntries(c)
    IN IF \E i \in 1..Len(es) : es[i].name = name
       THEN CHOOSE i \in 1..Len(es) : es[i].name = name
       ELSE 0

-----------------------------------------------------------------------------
(* loadTopicData: validation of the parsed content (app.js 115-126) *)

\* position in Object.entries order of the first category that is not an
\* array of the expected length, 0 when every category is consistent
FirstInconsistent(c, expectedLength) ==
    LET es == ObjectEntries(c)
        bad == {i \in 1..Len(es) :
                   ~es[i].values.isArray \/ Len(es[i].values.items) # expectedLength}
    IN IF bad = {} THEN 0 ELSE CHOOSE i \in bad : \A j \in bad : i <= j

StructureInvalid(data) ==
    ~Truthy(data.years) \/ ~Truthy(data.categories) \/ data.years.kind # "array"

ConsistencyError_Skipped(data) == NoError

ConsistencyError_NamesFirst(data) ==
    IF FirstInconsistent(data.categories, Len(data.years.items)) = 0 THEN NoError
    ELSE Err("Error", MsgInconsistent(ObjectEntries(data.categories)[1].name))

ConsistencyError(data) ==
    LET k == FirstInconsistent(data.categories, Len(data.years.items))
    IN IF k = 0 THEN NoError
       ELSE Err("Error", MsgInconsistent(ObjectEntries(data.categories)[k].name))

\* the error thrown by lines 115-126 for `data`, NoError when none is thrown
Validate(data) ==
    IF data.kind = "null" THEN Err("TypeError", MsgNullRead)
    ELSE IF StructureInvalid(data) THEN Err("Error", MsgInvalidFormat)
    ELSE ConsistencyError(data)

-----------------------------------------------------------------------------
(* createChartTraces (app.js 156-203) *)

colors == <<"#FF6B6B", "#4ECDC4", "#45B7D1", "#96CEB4", "#FFEAA7",
            "#DDA0DD", "#98D8C8", "#F7DC6F", "#FF9FF3", "#54A0FF",
            "#5F27CD", "#00D2D3", "#FF9F43", "#10AC84", "#EE5A24",
            "#0AD3C4", "#FFC312", "#C4E538", "#F79F1F", "#A3CB38">>

SortCompare_Ascending(a, b) == a.total - b.total

\* the comparator (a, b) => b.total - a.total
SortCompare(a, b) == b.total - a.total

\* Array.prototype.sort is stable: an element goes before the first element
\* the comparator orders strictly after it, and after every other one
InsertSorted(sorted, e) ==
    LET after == {i \in 1..Len(sorted) : SortCompare(sorted[i], e) > 0}
        k == IF after = {} THEN Len(sorted) + 1
             ELSE CHOOSE i \in after : \A j \in after : i <= j
    IN SubSeq(sorted, 1, k - 1) \o <<e>> \o SubSeq(sorted, k, Len(sorted))

RECURSIVE ArraySortFrom(_, _)
ArraySortFrom(sorted, rest) ==
    IF rest = <<>> THEN sorted
    ELSE ArraySortFrom(InsertSorted(sorted, Head(rest)), Tail(rest))

ArraySort(s) == ArraySortFrom(<<>>, s)

\* Object.entries(data.categories).map(...).sort(...)
categoryTotals(data) ==
    LET es == ObjectEntries(data.categories)
    IN ArraySort([i \in 1..Len(es) |->
                     [name |-> es[i].name, values |-> es[i].values.items,
                      total |-> SumSeq(es[i].values.items)]])

\* a palette lookup that stays on the last color once the palette is used up
PaletteColor_Unwrapped(colorIndex) ==
    colors[IF colorIndex < Len(colors) THEN colorIndex + 1 ELSE Len(colors)]

\* CHART_CONFIG.colors[colorIndex % CHART_CONFIG.colors.length]
PaletteColor(colorIndex) == colors[(colorIndex % Len(colors)) + 1]

\* data.markers && data.markers[name] ? data.markers[name] : 'circle'
MarkerSymbol(data, name) ==
    IF data.markers.kind = "object" /\ name \in DOMAIN data.markers.map
    THEN data.markers.map[name]
    ELSE "circle"

createChartTraces(data) ==
    LET sorted == categoryTotals(data)
    IN [i \in 1..Len(sorted) |->
           [x |-> data.years.items,
            y |-> sorted[i].values,
            name |-> sorted[i].name,
            lineColor |-> PaletteColor(i - 1),
            markerColor |-> PaletteColor(i - 1),
            symbol |-> MarkerSymbol(data, sorted[i].name)]]

-----------------------------------------------------------------------------
(* createDynamicAnnotations (app.js 210-299) *)

\* data.years.indexOf(year): zero-based first position, -1 when absent
IndexOf(s, v) ==
    IF \E i \in 1..Len(s) : s[i] = v
    THEN (CHOOSE i \in 1..Len(s) : s[i] = v /\ \A j \in 1..(i - 1) : s[j] # v) - 1
    ELSE -1

getCategoryValue(data, categoryName, year) ==
    LET k == PropertyIndex(data.categories, categoryName)
        yearIndex == IndexOf(data.years.items, year)
    IN IF k = 0 THEN 0
       ELSE IF yearIndex >= 0
            THEN ObjectEntries(data.categories)[k].values.items[yearIndex + 1]
            ELSE 0

\* the three hand-written lookups, in source order
AnnotationTriggers ==
    <<[category |-> "Machine Learning & AI", year |-> 2024,
       text |-> "LLMs<br>Emerge", arrowcolor |-> "#FF6B6B"],
      [category |-> "Social Sciences & Demographics", year |-> 2019,
       text |-> "Census<br>Focus", arrowcolor |-> "#ed8936"],
      [category |-> "Pandemic & Public Health", year |-> 2020,
       text |-> "COVID-19<br>Impact", arrowcolor |-> "#48bb78"]>>

ShouldAnnotate_NonNegative(value) == value >= 0

\* if (mlValue2024 > 0) ...
ShouldAnnotate(value) == value > 0

RECURSIVE AnnotationsFrom(_, _)
AnnotationsFrom(data, k) ==
    IF k > Len(AnnotationTriggers) THEN <<>>
    ELSE LET t == AnnotationTriggers[k]
             value == getCategoryValue(data, t.category, t.year)
         IN (IF ShouldAnnotate(value)
             THEN <<[x |-> t.year, y |-> value, text |-> t.text,
                     arrowcolor |-> t.arrowcolor]>>
             ELSE <<>>) \o AnnotationsFrom(data, k + 1)

createDynamicAnnotations(data) == AnnotationsFrom(data, 1)

-----------------------------------------------------------------------------
(* The contents data.json may have, as response.json() parses it *)

LoadNames == {"Machine Learning & AI", "Pandemic & Public Health", "7"}

LoadYearSet == {2019, 2020}

LoadYears ==
    {YearsAbsent, YearsFalsy, YearsScalar}
        \cup {YearsArray(s) : s \in SeqsUpTo(LoadYearSet, MaxYears)}

LoadValueSet == {-1, 1}

\* not an array, or an array of any length up to MaxYears holding one count
LoadValues ==
    {NotArray}
        \cup {ValueArray([i \in 1..n |-> v]) : n \in 0..MaxYears, v \in LoadValueSet}

DistinctNameSeqs(names, n) == {ns \in SeqsUpTo(names, n) : Distinct(ns)}

\* the objects with the names ns, in that creation order, and values from vals
ObjectsWith(ns, vals) ==
    {CatsOf("object", [i \in 1..Len(ns) |-> [name |-> ns[i], values |-> vs[i]]]) :
        vs \in [1..Len(ns) -> vals]}

ArraysOf(vals, n) ==
    {CatsOf("array", [i \in 1..Len(vs) |-> [name |-> IndexNames[i], values |-> vs[i]]]) :
        vs \in SeqsUpTo(vals, n)}

\* a one-character string: Object.entries gives its index and the character
CatsString == CatsOf("string", <<[name |-> IndexNames[1], values |-> NotArray]>>)

LoadCategories ==
    {CatsAbsent, CatsFalsy, CatsNumber, CatsString}
        \cup ArraysOf(LoadValues, MaxCats)
        \cup UNION {ObjectsWith(ns, LoadValues) : ns \in DistinctNameSeqs(LoadNames, MaxCats)}

LoadMarkers ==
    {MarkersAbsent, MarkersObject([n \in {"Machine Learning & AI"} |-> "diamond"])}

LoadInputs ==
    {JNull, JScalar}
        \cup {JObject(y, c, m) : y \in LoadYears, c \in LoadCategories, m \in LoadMarkers}

NoResponse == [ok |-> FALSE, status |-> "", statusText |-> ""]

OkResponse == [ok |-> TRUE, status |-> "200", statusText |-> "OK"]

FailureResponses ==
    {[ok |-> FALSE, status |-> "404", statusText |-> "Not Found"],
     [ok |-> FALSE, status |-> "500", statusText |-> "Internal Server Error"]}

-----------------------------------------------------------------------------
(* The page *)

\* showLoadingState (app.js 63-76)
showLoadingState(el) ==
    IF el.exists THEN [el EXCEPT !.state = "loading", !.message = <<>>] ELSE el

\* showErrorState (app.js 82-95)
showErrorState(el, message) ==
    IF el.exists THEN [el EXCEPT !.state = "error", !.message = message] ELSE el

Init ==
    /\ pc = "start"
    /\ AppState = [data |-> JNull, isLoading |-> TRUE, error |-> NoError,
                   chartInstance |-> "null"]
    /\ chartElement \in {[exists |-> e, state |-> "initial", message |-> <<>>] :
                            e \in BOOLEAN}
    /\ response = NoResponse
    /\ parsed = JNull
    /\ loadResult = JNull
    /\ traces = <<>>
    /\ annotations = <<>>
    /\ built = {}
    /\ plotCalls = 0
    /\ listeners = 0
    /\ timeout = FALSE
    /\ timers = {}
    /\ sinceResize = -1
    /\ burstEvents = 0
    /\ callbackRuns = 0
    /\ resizeCalls = 0
    /\ logged = {}
    /\ escaped = {}

\* document 'DOMContentLoaded' -> initializeApp -> loadTopicData, up to the
\* await of fetch('data.json')
DOMContentLoaded ==
    /\ pc = "start"
    /\ chartElement' = showLoadingState(chartElement)
    /\ pc' = "fetch"
    /\ UNCHANGED <<AppState, response, parsed, loadResult, traces, annotations, built,
                   plotCalls, listeners, timeout, debounceVars, logged, escaped>>

\* a catch block that records the error and leaves isLoading as it was
LoadFailed_KeepsLoading(error) ==
    /\ AppState' = [AppState EXCEPT !.error = error]
    /\ logged' = logged \cup {"loadTopicData"}
    /\ chartElement' = showErrorState(chartElement, error.message)
    /\ loadResult' = JNull
    /\ pc' = "loaded"
    /\ UNCHANGED <<traces, annotations, built, plotCalls, listeners, timeout, debounceVars,
                   escaped>>

\* the catch block of loadTopicData (app.js 140-146)
LoadFailed(error) ==
    /\ AppState' = [AppState EXCEPT !.isLoading = FALSE, !.error = error]
    /\ logged' = logged \cup {"loadTopicData"}
    /\ chartElement' = showErrorState(chartElement, error.message)
    /\ loadResult' = JNull
    /\ pc' = "loaded"
    /\ UNCHANGED <<traces, annotations, built, plotCalls, listeners, timeout, debounceVars, escaped>>

\* fetch rejects (network failure)
FetchRejected ==
    /\ pc = "fetch"
    /\ LoadFailed(Err("TypeError", MsgFetch))
    /\ UNCHANGED <<response, parsed>>

\* fetch resolves with !response.ok (app.js 109-111)
FetchNotOk ==
    /\ pc = "fetch"
    /\ \E r \in FailureResponses :
           /\ response' = r
           /\ LoadFailed(Err("Error", MsgHttp(r.status, r.statusText)))
    /\ UNCHANGED parsed

\* fetch resolves with response.ok, up to the await of response.json()
FetchOk ==
    /\ pc = "fetch"
    /\ response' = OkResponse
    /\ pc' = "json"
    /\ UNCHANGED <<AppState, chartElement, parsed, loadResult, traces, annotations,
                   built, plotCalls, listeners, timeout, debounceVars, logged, escaped>>

\* response.json() rejects: the content is not JSON
JsonRejected ==
    /\ pc = "json"
    /\ LoadFailed(Err("SyntaxError", MsgSyntax))
    /\ UNCHANGED <<response, parsed>>

\* AppState.data assigned before the validation instead of after it
JsonInvalid_AssignsFirst ==
    /\ pc = "json"
    /\ \E data \in LoadInputs :
           /\ Validate(data) # NoError
           /\ parsed' = data
           /\ AppState' = [AppState EXCEPT !.data = data, !.isLoading = FALSE,
                                           !.error = Validate(data)]
           /\ chartElement' = showErrorState(chartElement, Validate(data).message)
    /\ logged' = logged \cup {"loadTopicData"}
    /\ loadResult' = JNull
    /\ pc' = "loaded"
    /\ UNCHANGED <<response, traces, annotations, built, plotCalls, listeners,
                   timeout, debounceVars, escaped>>

\* response.json() resolves and validation throws (app.js 113-126)
JsonInvalid ==
    /\ pc = "json"
    /\ \E data \in LoadInputs :
           /\ Validate(data) # NoError
           /\ parsed' = data
           /\ LoadFailed(Validate(data))
    /\ UNCHANGED response

\* response.json() resolves and validation passes (app.js 113-138)
JsonValid ==
    /\ pc = "json"
    /\ \E data \in LoadInputs :
           /\ Validate(data) = NoError
           /\ parsed' = data
           /\ AppState' = [AppState EXCEPT !.data = data, !.isLoading = FALSE,
                                           !.error = NoError]
           /\ loadResult' = data
    /\ pc' = "loaded"
    /\ UNCHANGED <<chartElement, response, traces, annotations, built, plotCalls, listeners,
                   timeout, debounceVars, logged, escaped>>

\* an initializeApp that answers a failed load by loading again
InitLoadFailed_Retries ==
    /\ pc = "loaded"
    /\ loadResult.kind = "null"
    /\ logged' = logged \cup {"initializeApp"}
    /\ chartElement' = showLoadingState(chartElement)
    /\ pc' = "fetch"
    /\ UNCHANGED <<AppState, response, parsed, loadResult, traces, annotations, built,
                   plotCalls, listeners, timeout, debounceVars, escaped>>

\* initializeApp resumes with a null result: throws and catches (app.js 439-451)
InitLoadFailed ==
    /\ pc = "loaded"
    /\ loadResult.kind = "null"
    /\ logged' = logged \cup {"initializeApp"}
    /\ chartElement' = showErrorState(chartElement, MsgInit)
    /\ pc' = "done"
    /\ UNCHANGED <<AppState, response, parsed, loadResult, traces, annotations, built,
                   plotCalls, listeners, timeout, debounceVars, escaped>>

\* initializeApp resumes with data: renderChart builds traces and layout and
\* calls Plotly.newPlot (app.js 444, 380-391)
RenderStart ==
    /\ pc = "loaded"
    /\ loadResult.kind # "null"
    /\ traces' = createChartTraces(loadResult)
    /\ annotations' = createDynamicAnnotations(loadResult)
    /\ built' = {"traces", "annotations"}
    /\ plotCalls' = plotCalls + 1
    /\ pc' = "plot"
    /\ UNCHANGED <<AppState, chartElement, response, parsed, loadResult, listeners, timeout, debounceVars,
                   logged, escaped>>

\* Plotly.newPlot resolves: the handle is stored and the resize listener
\* registered (app.js 386-400); it draws into the element, which must exist
PlotResolved ==
    /\ pc = "plot"
    /\ chartElement.exists
    /\ AppState' = [AppState EXCEPT !.chartInstance = "gd"]
    /\ chartElement' = [chartElement EXCEPT !.state = "chart", !.message = <<>>]
    /\ listeners' = listeners + 1
    /\ pc' = "done"
    /\ UNCHANGED <<response, parsed, loadResult, traces, annotations, built, plotCalls,
                   timeout, debounceVars, logged, escaped>>

\* renderChart without its try/catch: the rejection reaches initializeApp
PlotRejected_Uncaught ==
    /\ pc = "plot"
    /\ escaped' = escaped \cup {"renderChart"}
    /\ logged' = logged \cup {"initializeApp"}
    /\ chartElement' = showErrorState(chartElement, MsgInit)
    /\ pc' = "done"
    /\ UNCHANGED <<AppState, response, parsed, loadResult, traces, annotations,
                   built, plotCalls, listeners, timeout, debounceVars>>

\* Plotly.newPlot throws or rejects: the catch block of renderChart (402-405)
PlotRejected ==
    /\ pc = "plot"
    /\ logged' = logged \cup {"renderChart"}
    /\ chartElement' = showErrorState(chartElement, MsgRender)
    /\ pc' = "done"
    /\ UNCHANGED <<AppState, response, parsed, loadResult, traces, annotations, built,
                   plotCalls, listeners, timeout, debounceVars, escaped>>

\* debounce(..., 250): the wait of the resize listener, in ms (app.js 400)
DebounceWait == 250

\* the amounts of time, in ms, by which the model lets the clock advance
TickSteps == {50, 100}

Min(S) == CHOOSE x \in S : \A y \in S : x <= y

Max(S) == CHOOSE x \in S : \A y \in S : y <= x

\* setTimeout(later, wait): one more pending timer, `wait` ms from now
setTimeout(ts, wait) == ts \cup {wait}

\* a debounce that never cancels the timer it set before
clearTimeout_Missing(ts) == ts

\* clearTimeout(timeout): `timeout` is the id of the timer set last, the one
\* with the longest delay left; clearing a timer that has fired does nothing
clearTimeout(ts) == IF ts = {} THEN {} ELSE ts \ {Max(ts)}

\* a resize listener that puts the loading placeholder back while it waits
ResizeEvent_ShowsLoading ==
    /\ listeners > 0
    /\ 0 \notin timers
    /\ timers # {} => burstEvents < MaxBurst
    /\ timeout' = TRUE
    /\ timers' = setTimeout(clearTimeout(timers), DebounceWait)
    /\ sinceResize' = 0
    /\ burstEvents' = IF timers = {} THEN 1 ELSE burstEvents + 1
    /\ callbackRuns' = 0
    /\ resizeCalls' = 0
    /\ chartElement' = showLoadingState(chartElement)
    /\ UNCHANGED <<pc, AppState, response, parsed, loadResult, traces,
                   annotations, built, plotCalls, listeners, logged, escaped>>

\* a window 'resize' event reaches the debounced listener: clearTimeout, then
\* setTimeout(later, 250) (app.js 418-425).  A timer that is due runs before
\* the event is dispatched; an event that finds a timer pending arrived less
\* than the wait after the previous one and continues its burst.
ResizeEvent ==
    /\ listeners > 0
    /\ 0 \notin timers
    /\ timers # {} => burstEvents < MaxBurst
    /\ timeout' = TRUE
    /\ timers' = setTimeout(clearTimeout(timers), DebounceWait)
    /\ sinceResize' = 0
    /\ burstEvents' = IF timers = {} THEN 1 ELSE burstEvents + 1
    /\ callbackRuns' = 0
    /\ resizeCalls' = 0
    /\ UNCHANGED <<pc, AppState, chartElement, response, parsed, loadResult, traces,
                   annotations, built, plotCalls, listeners, logged, escaped>>

\* d ms pass while a timer is pending: no timer is overrun, one that is due
\* fires before the clock moves on (setTimeout, app.js 424)
Tick(d) ==
    /\ timers # {}
    /\ d <= Min(timers)
    /\ timers' = {t - d : t \in timers}
    /\ sinceResize' = IF sinceResize + d > DebounceWait THEN DebounceWait
                      ELSE sinceResize + d
    /\ UNCHANGED <<pc, AppState, chartElement, response, parsed, loadResult, traces,
                   annotations, built, plotCalls, listeners, timeout, burstEvents,
                   callbackRuns, resizeCalls, logged, escaped>>

\* a resize callback that rebuilds the traces and the layout from the held
\* dataset and calls Plotly.newPlot again
ResizeDone_Rerenders ==
    /\ timeout
    /\ 0 \in timers
    /\ timers' = clearTimeout(timers \ {0})
    /\ timeout' = (timers' # {})
    /\ callbackRuns' = callbackRuns + 1
    /\ traces' = createChartTraces(AppState.data)
    /\ annotations' = createDynamicAnnotations(AppState.data)
    /\ built' = built \cup {"traces2", "annotations2"}
    /\ plotCalls' = plotCalls + 1
    /\ UNCHANGED <<pc, AppState, chartElement, response, parsed, loadResult, listeners,
                   sinceResize, burstEvents, resizeCalls, logged, escaped>>

\* the timer fires: later() clears the timer and calls the resize callback,
\* which calls Plotly.Plots.resize when a chart handle is held; the call
\* returns (app.js 419-422, 396-400)
ResizeDone ==
    /\ timeout
    /\ 0 \in timers
    /\ timers' = clearTimeout(timers \ {0})
    /\ timeout' = (timers' # {})
    /\ callbackRuns' = callbackRuns + 1
    /\ resizeCalls' = IF AppState.chartInstance # "null" THEN resizeCalls + 1
                      ELSE resizeCalls
    /\ UNCHANGED <<pc, AppState, chartElement, response, parsed, loadResult, traces,
                   annotations, built, plotCalls, listeners, sinceResize, burstEvents,
                   logged, escaped>>

\* the timer fires and Plotly.Plots.resize throws: nothing catches it, the
\* window 'error' listener logs it (app.js 396-400, 467-469)
ResizeThrew ==
    /\ timeout
    /\ 0 \in timers
    /\ AppState.chartInstance # "null"
    /\ timers' = clearTimeout(timers \ {0})
    /\ timeout' = (timers' # {})
    /\ callbackRuns' = callbackRuns + 1
    /\ resizeCalls' = resizeCalls + 1
    /\ logged' = logged \cup {"Global"}
    /\ escaped' = escaped \cup {"resize"}
    /\ UNCHANGED <<pc, AppState, chartElement, response, parsed, loadResult, traces,
                   annotations, built, plotCalls, listeners, sinceResize, burstEvents>>

Next ==
    \/ DOMContentLoaded
    \/ FetchRejected
    \/ FetchNotOk
    \/ FetchOk
    \/ JsonRejected
    \/ JsonInvalid
    \/ JsonValid
    \/ InitLoadFailed
    \/ RenderStart
    \/ PlotResolved
    \/ PlotRejected
    \/ ResizeEvent
    \/ \E d \in TickSteps : Tick(d)
    \/ ResizeDone
    \/ ResizeThrew

Spec == Init /\ [][Next]_vars

-----------------------------------------------------------------------------
(* The builders on their own: the page holds a validated Dataset (section 3 *)
(* of the specification: strictly increasing years, one array of counts of  *)
(* the same length per category) and the builders are called on it as      *)
(* renderChart calls them, traces first and annotations second, and then    *)
(* once more as a rebuild would.                                            *)

BuildYearSet == {2019, 2020, 2024}

BuildValueSet == {0, 1}

BuildNames == {"Machine Learning & AI", "Social Sciences & Demographics",
               "Pandemic & Public Health", "7"}

StrictlyIncreasing(s) == \A i, j \in 1..Len(s) : i < j => s[i] < s[j]

BuildYears ==
    {s \in SeqsUpTo(BuildYearSet, MaxYears) : s # <<>> /\ StrictlyIncreasing(s)}

BuildMarkers == MarkersObject([n \in {"Machine Learning & AI"} |-> "diamond"])

\* the dataset with years ys, category names ns (in creation order) and
\* counts vs[i] for category ns[i]
Dataset(ys, ns, vs) ==
    JObject(YearsArray(ys),
            CatsOf("object", [i \in 1..Len(ns) |->
                                 [name |-> ns[i], values |-> ValueArray(vs[i])]]),
            BuildMarkers)

InitBuild ==
    /\ pc = "loaded"
    /\ \E ys \in BuildYears :
       \E ns \in DistinctNameSeqs(BuildNames, BuildCats) :
       \E vs \in [1..Len(ns) -> [1..Len(ys) -> BuildValueSet]] :
           LET data == Dataset(ys, ns, vs)
           IN /\ AppState = [data |-> data, isLoading |-> FALSE,
                             error |-> NoError, chartInstance |-> "null"]
              /\ parsed = data
              /\ loadResult = data
    /\ chartElement = [exists |-> TRUE, state |-> "loading", message |-> <<>>]
    /\ response = OkResponse
    /\ traces = <<>>
    /\ annotations = <<>>
    /\ built = {}
    /\ plotCalls = 0
    /\ listeners = 0
    /\ timeout = FALSE
    /\ timers = {}
    /\ sinceResize = -1
    /\ burstEvents = 0
    /\ callbackRuns = 0
    /\ resizeCalls = 0
    /\ logged = {}
    /\ escaped = {}

\* the dataset's categories with their entries stored in sorted order: what
\* sorting the dataset's own entries in place would leave behind
CallCreateChartTraces_SortsDataset ==
    /\ pc = "loaded"
    /\ built \in {{}, {"traces", "annotations"}}
    /\ traces' = createChartTraces(AppState.data)
    /\ built' = built \cup (IF "traces" \in built THEN {"traces2"} ELSE {"traces"})
    /\ AppState' = [AppState EXCEPT !.data.categories.entries =
                       LET sorted == categoryTotals(AppState.data)
                       IN [i \in 1..Len(sorted) |->
                              [name |-> sorted[i].name,
                               values |-> ValueArray(sorted[i].values)]]]
    /\ UNCHANGED <<pc, chartElement, response, parsed, loadResult, annotations, plotCalls,
                   listeners, timeout, debounceVars, logged, escaped>>

\* const traces = createChartTraces(data): the entries are copied by
\* Object.entries(...).map(...) before the in-place sort, the dataset and
\* CHART_CONFIG are only read, colorIndex is a local (app.js 156-203)
CallCreateChartTraces ==
    /\ pc = "loaded"
    /\ built \in {{}, {"traces", "annotations"}}
    /\ traces' = createChartTraces(AppState.data)
    /\ built' = built \cup (IF "traces" \in built THEN {"traces2"} ELSE {"traces"})
    /\ UNCHANGED <<pc, AppState, chartElement, response, parsed, loadResult, annotations,
                   plotCalls, listeners, timeout, debounceVars, logged, escaped>>

\* annotations: createDynamicAnnotations(data): reads the dataset, pushes
\* onto a fresh local array (app.js 210-299, 372)
CallCreateDynamicAnnotations ==
    /\ pc = "loaded"
    /\ built \in {{"traces"}, {"traces", "annotations", "traces2"}}
    /\ annotations' = createDynamicAnnotations(AppState.data)
    /\ built' = built \cup (IF "annotations" \in built THEN {"annotations2"}
                             ELSE {"annotations"})
    /\ UNCHANGED <<pc, AppState, chartElement, response, parsed, loadResult, traces,
                   plotCalls, listeners, timeout, debounceVars, logged, escaped>>

NextBuild ==
    \/ CallCreateChartTraces
    \/ CallCreateDynamicAnnotations

SpecBuild == InitBuild /\ [][NextBuild]_vars

-----------------------------------------------------------------------------
(* The trace builder on datasets with more categories than the palette has  *)
(* colors: one year, any number of categories up to two more than the       *)
(* palette size, with totals that put the categories in different orders.   *)

PaletteNames ==
    <<"T01", "T02", "T03", "T04", "T05", "T06", "T07", "T08", "T09", "T10", "T11",
      "T12", "T13", "T14", "T15", "T16", "T17", "T18", "T19", "T20", "T21", "T22">>

PaletteYears == <<2024>>

\* category i has the count (i * step) % modulus
PaletteSteps == {0, 1, 2, 3}

PaletteModuli == {3, 5}

InitColors ==
    /\ pc = "loaded"
    /\ \E n \in 1..Len(PaletteNames) :
       \E step \in PaletteSteps :
       \E modulus \in PaletteModuli :
           LET data == Dataset(PaletteYears,
                               [i \in 1..n |-> PaletteNames[i]],
                               [i \in 1..n |-> <<(i * step) % modulus>>])
           IN /\ AppState = [data |-> data, isLoading |-> FALSE,
                             error |-> NoError, chartInstance |-> "null"]
              /\ parsed = data
              /\ loadResult = data
    /\ chartElement = [exists |-> TRUE, state |-> "loading", message |-> <<>>]
    /\ response = OkResponse
    /\ traces = <<>>
    /\ annotations = <<>>
    /\ built = {}
    /\ plotCalls = 0
    /\ listeners = 0
    /\ timeout = FALSE
    /\ timers = {}
    /\ sinceResize = -1
    /\ burstEvents = 0
    /\ callbackRuns = 0
    /\ resizeCalls = 0
    /\ logged = {}
    /\ escaped = {}

SpecColors == InitColors /\ [][NextBuild]_vars

-----------------------------------------------------------------------------
(* Properties of the loader and of the initialization sequence (Spec) *)

\* response.json() has resolved with a JSON object
ParsedObject == parsed.kind = "object"

\* a category (own property of `categories`) of the parsed content whose
\* value is an array of a length other than len(years)
WrongLength(e) ==
    /\ parsed.years.kind = "array"
    /\ e.values.isArray
    /\ Len(e.values.items) # Len(parsed.years.items)

\* the parsed content misses `years` or `categories`, or holds a category of
\* the wrong length
MissingOrWrongLength ==
    /\ ParsedObject
    /\ \/ parsed.years.kind = "absent"
       \/ parsed.categories.kind = "absent"
       \/ \E e \in Range(parsed.categories.entries) : WrongLength(e)

LoadReturned == pc \in {"loaded", "plot", "done"}

\* C1: content that misses `years` or `categories`, or holds a category whose
\* array has a length other than len(years), makes loadTopicData return null:
\* AppState.data stays null and AppState.error is set.
C1_ValidationTotality ==
    MissingOrWrongLength =>
        /\ LoadReturned
        /\ loadResult = JNull
        /\ AppState.data = JNull
        /\ AppState.error # NoError
        /\ ~AppState.isLoading

C1_Witness ==
    /\ pc = "loaded"
    /\ ParsedObject
    /\ Len(parsed.years.items) = 2
    /\ Len(parsed.categories.entries) = 2
    /\ ~WrongLength(parsed.categories.entries[1])
    /\ WrongLength(parsed.categories.entries[2])
    /\ AppState.error # NoError

\* C2: Plotly.newPlot is invoked only after loadTopicData has completed, and
\* only when it succeeded; a failed load, and in particular content failing
\* validation, yields no chart output.
C2_RenderAfterLoad ==
    /\ plotCalls > 0 =>
           /\ pc \in {"plot", "done"}
           /\ ~AppState.isLoading
           /\ AppState.data # JNull
           /\ AppState.data = loadResult
           /\ AppState.error = NoError
    /\ (LoadReturned /\ loadResult = JNull) =>
           /\ plotCalls = 0
           /\ traces = <<>>
           /\ chartElement.state # "chart"
    /\ MissingOrWrongLength => plotCalls = 0 /\ chartElement.state # "chart"

C2_Witness ==
    /\ pc = "done"
    /\ MissingOrWrongLength
    /\ plotCalls = 0
    /\ chartElement.state = "error"

\* C3 (as claimed): once initialization has finished after a failed load, the
\* error panel in the mount point carries the message of that failure.
C3_SpecificMessageShown ==
    (pc = "done" /\ AppState.error # NoError /\ chartElement.exists) =>
        /\ chartElement.state = "error"
        /\ chartElement.message = AppState.error.message

\* a category that is not an array of len(years) elements
Inconsistent(e) ==
    ~e.values.isArray \/ Len(e.values.items) # Len(parsed.years.items)

\* `years` is an array, `categories` is truthy and has an inconsistent category
HasInconsistentCategory ==
    /\ ParsedObject
    /\ parsed.years.kind = "array"
    /\ \E e \in Range(parsed.categories.entries) : Inconsistent(e)

\* C4: when `years` is an array of length N and some category is not an array
\* of length N, loadTopicData fails with "Data inconsistency in category: c"
\* where c is one of the inconsistent categories, and no Dataset is produced.
C4_ConsistencyErrorNamesOffender ==
    HasInconsistentCategory =>
        /\ loadResult = JNull
        /\ AppState.data = JNull
        /\ AppState.error.name = "Error"
        /\ \E e \in Range(parsed.categories.entries) :
               /\ Inconsistent(e)
               /\ AppState.error.message = MsgInconsistent(e.name)

C4_Witness ==
    /\ HasInconsistentCategory
    /\ parsed.categories.kind = "object"
    /\ Len(parsed.categories.entries) = 2
    /\ ~Inconsistent(parsed.categories.entries[1])
    /\ Inconsistent(parsed.categories.entries[2])
    /\ AppState.error.message = MsgInconsistent(parsed.categories.entries[2].name)

\* C5 (as claimed): content whose `years` is absent or not an array, or whose
\* `categories` is absent or not an object mapping names to arrays, fails
\* with the schema error.
C5_SchemaErrorOnWrongShape ==
    (ParsedObject /\ (parsed.years.kind # "array" \/ parsed.categories.kind # "object")) =>
        /\ loadResult = JNull
        /\ AppState.error = Err("Error", MsgInvalidFormat)

\* C6: no error leaves loadTopicData, renderChart or initializeApp: a failed
\* load is logged and shown as the error panel, a failed render ends in the
\* error panel, and a non-success response gives "HTTP <status>: <reason>".
C6_ErrorsCaughtAtBoundary ==
    /\ escaped \cap {"loadTopicData", "renderChart", "initializeApp"} = {}
    /\ AppState.error # NoError =>
           /\ "loadTopicData" \in logged
           /\ loadResult = JNull
           /\ chartElement.exists => chartElement.state = "error"
    /\ (pc = "done" /\ AppState.chartInstance = "null") =>
           /\ logged \cap {"renderChart", "initializeApp"} # {}
           /\ chartElement.exists => chartElement.state = "error"
    /\ (response # NoResponse /\ ~response.ok) =>
           /\ LoadReturned
           /\ AppState.error =
                  Err("Error", <<"HTTP ", response.status, ": ", response.statusText>>)

C6_Witness ==
    /\ pc = "done"
    /\ AppState.error = NoError
    /\ AppState.chartInstance = "null"
    /\ chartElement.state = "error"
    /\ "renderChart" \in logged

\* C10: from the start of the load on, the mount point shows exactly one of
\* loading, error and chart; it shows loading until the load resolves, shows
\* the chart only after a successful load and a successful render, and once
\* it has left the loading state it never shows it again.
C10_RenderStates ==
    /\ [](chartElement.exists /\ pc # "start" =>
             /\ chartElement.state \in {"loading", "error", "chart"}
             /\ pc \in {"fetch", "json"} => chartElement.state = "loading"
             /\ chartElement.state = "chart" =>
                    /\ pc = "done"
                    /\ AppState.data # JNull
                    /\ AppState.error = NoError
                    /\ plotCalls > 0
                    /\ AppState.chartInstance # "null")
    /\ [][chartElement.state \in {"error", "chart"} => chartElement'.state # "loading"]_vars

C10_Witness ==
    /\ chartElement.state = "chart"
    /\ timeout
    /\ "Global" \in logged

-----------------------------------------------------------------------------
(* Properties of the builders (SpecBuild) *)

\* the categories of the held Dataset, in the order the file creates them
Entries == AppState.data.categories.entries

Position(name) == CHOOSE i \in 1..Len(Entries) : Entries[i].name = name

\* exactly one series per category, carrying its name, its counts and the years
OneSeriesPerCategory ==
    /\ Len(traces) = Len(Entries)
    /\ \A e \in Range(Entries) :
           \E i \in 1..Len(traces) :
               /\ traces[i].name = e.name
               /\ traces[i].y = e.values.items
               /\ traces[i].x = AppState.data.years.items

\* the order in which the categories mapping enumerates two names: names that
\* are array indices first, in ascending numeric order, then the other names
\* in creation order
EnumeratedBefore(a, b) ==
    \/ IsArrayIndex(a) /\ IsArrayIndex(b) /\ ArrayIndex(a) < ArrayIndex(b)
    \/ IsArrayIndex(a) /\ ~IsArrayIndex(b)
    \/ ~IsArrayIndex(a) /\ ~IsArrayIndex(b) /\ Position(a) < Position(b)

HasPoint(category, year) ==
    /\ \E e \in Range(Entries) : e.name = category
    /\ \E k \in 1..Len(AppState.data.years.items) : AppState.data.years.items[k] = year

PointValue(category, year) ==
    LET e == CHOOSE e \in Range(Entries) : e.name = category
        k == CHOOSE k \in 1..Len(AppState.data.years.items) :
                 AppState.data.years.items[k] = year
    IN e.values.items[k]

Emitted(t) == HasPoint(t.category, t.year) /\ PointValue(t.category, t.year) > 0

\* C8: the annotation of a fixed (category, year) trigger is emitted exactly
\* when the Dataset has that category and that year with a count above zero;
\* it is anchored at that year and count; the fixed order is kept.
C8_AnnotationSuppression ==
    "annotations" \in built =>
        LET expected == SelectSeq(AnnotationTriggers, Emitted)
        IN /\ Len(annotations) = Len(expected)
           /\ \A i \in 1..Len(annotations) :
                  /\ annotations[i].x = expected[i].year
                  /\ annotations[i].y = PointValue(expected[i].category, expected[i].year)
                  /\ annotations[i].text = expected[i].text

\* one trigger emitted, one suppressed by a zero count, one by a missing category
C8_Witness ==
    /\ "annotations" \in built
    /\ Len(annotations) = 1
    /\ annotations[1].x = 2020
    /\ HasPoint("Machine Learning & AI", 2024)
    /\ PointValue("Machine Learning & AI", 2024) = 0
    /\ ~\E e \in Range(Entries) : e.name = "Social Sciences & Demographics"

-----------------------------------------------------------------------------
(* Properties of the resize listener (Spec) *)

\* the debounced callback has run and Plotly.Plots.resize threw in it
ResizeFailed == "resize" \in escaped

\* C11: after a successful initial render, a resize-triggered rerender that
\* throws is caught and the mount point shows the error panel.
C11_ResizeFailureShowsError ==
    ResizeFailed => /\ chartElement.state = "error"
                    /\ "renderChart" \in logged

\* C12: a burst of resize events, each less than the wait after the previous
\* one, leads to exactly one run of the resize callback, one full wait after
\* the last event of the burst: every event cancels the pending timer and
\* sets a new one, so at most one timer is pending, its delay counts from the
\* last event, and the callback has not run while a timer is pending.
C12_DebounceOnce ==
    /\ Cardinality(timers) <= 1
    /\ \A t \in timers : t = DebounceWait - sinceResize
    /\ timers # {} => callbackRuns = 0
    /\ callbackRuns > 0 => callbackRuns = 1 /\ sinceResize = DebounceWait
    /\ (sinceResize >= 0 /\ timers = {}) => callbackRuns = 1

\* a burst of several events has ended in one run of the callback
C12_Witness ==
    /\ burstEvents > 1
    /\ timers = {}
    /\ callbackRuns = 1
    /\ sinceResize = DebounceWait

\* a step in which the debounced resize callback runs
CallbackStep == callbackRuns' > callbackRuns

-----------------------------------------------------------------------------
(* Properties of the palette (SpecColors) *)

\* C14: the series at sorted position i (from 0) gets the palette color at
\* index i mod P, P the palette length, as its line color and as its marker
\* color: with P + 1 categories the first and the (P+1)-th sorted series get
\* the same color, and two series share a color only if there are more than
\* P categories.
C14_PaletteWraps ==
    "traces" \in built =>
        LET P == Len(colors)
            n == Len(traces)
        IN /\ n = Len(AppState.data.categories.entries)
           /\ \A i \in 1..n :
                  /\ traces[i].lineColor = colors[((i - 1) % P) + 1]
                  /\ traces[i].markerColor = traces[i].lineColor
           /\ n > P => traces[1].lineColor = traces[P + 1].lineColor
           /\ \A i, j \in 1..n :
                  (i # j /\ traces[i].lineColor = traces[j].lineColor) => n > P

\* one category more than the palette has colors: the last series, which is
\* not the category created last, repeats the first series' color
C14_Witness ==
    /\ "traces" \in built
    /\ Len(traces) = Len(colors) + 1
    /\ traces[Len(colors) + 1].lineColor = traces[1].lineColor
    /\ traces[Len(colors) + 1].markerColor = colors[1]
    /\ traces[Len(colors) + 1].name # PaletteNames[Len(colors) + 1]

-----------------------------------------------------------------------------
(* Properties of AppState over the life of the page (Spec) *)

\* C15: the loader runs once per page load and is not retried; AppState.data
\* is written once, by the load whose validation passed, and never reassigned
\* or changed afterwards; AppState.chartInstance is written only when
\* Plotly.newPlot has resolved.
C15_WrittenOnce ==
    [][/\ pc' = "fetch" => pc = "start"
       /\ pc # "start" => pc' # "start"
       /\ AppState'.data # AppState.data =>
              /\ pc = "json"
              /\ AppState.data = JNull
              /\ Validate(parsed') = NoError
              /\ AppState'.data = parsed'
              /\ loadResult' = parsed'
       /\ AppState'.chartInstance # AppState.chartInstance =>
              /\ pc = "plot"
              /\ AppState.chartInstance = "null"
              /\ AppState.data # JNull
              /\ chartElement'.state = "chart"]_vars

\* a page that loaded, rendered and answered a resize with its data in place
C15_Witness ==
    /\ pc = "done"
    /\ AppState.data = loadResult
    /\ AppState.data # JNull
    /\ AppState.chartInstance # "null"
    /\ callbackRuns = 1

\* the data model of a Dataset: years a non-empty, strictly increasing array,
\* every category an array of len(years) non-negative counts
DataModel(d) ==
    /\ d.years.kind = "array"
    /\ d.years.items # <<>>
    /\ StrictlyIncreasing(d.years.items)
    /\ \A e \in Range(d.categories.entries) :
           /\ e.values.isArray
           /\ Len(e.values.items) = Len(d.years.items)
           /\ \A i \in 1..Len(e.values.items) : e.values.items[i] >= 0

\* C16: every Dataset loadTopicData returns on success satisfies the data
\* model: non-empty, strictly increasing years and, for every category,
\* non-negative counts of length exactly len(years).
C16_LoadedDatasetInModel ==
    (LoadReturned /\ loadResult # JNull) => DataModel(loadResult)

\* C17: AppState.isLoading is true until loadTopicData completes and false
\* for ever after; once it is false exactly one of AppState.data and
\* AppState.error is non-null; AppState.chartInstance is non-null only if
\* the data is non-null and the error null; the resize listener is registered
\* only after a successful render, so a timer is pending and the debounced
\* callback has run only with a chart handle held.
C17_AppStateInvariant ==
    /\ [](/\ AppState.isLoading <=> ~LoadReturned
          /\ ~AppState.isLoading => (AppState.data # JNull) # (AppState.error # NoError)
          /\ AppState.chartInstance # "null" =>
                 AppState.data # JNull /\ AppState.error = NoError
          /\ listeners > 0 =>
                 /\ listeners = 1
                 /\ pc = "done"
                 /\ plotCalls = 1
                 /\ AppState.chartInstance # "null"
          /\ (timers # {} \/ callbackRuns > 0) =>
                 /\ listeners > 0
                 /\ AppState.chartInstance # "null"
          /\ resizeCalls = callbackRuns)
    /\ [][~AppState.isLoading => ~AppState'.isLoading]_vars

\* the callback has run for a resize of a loaded and rendered page
C17_Witness ==
    /\ ~AppState.isLoading
    /\ AppState.error = NoError
    /\ AppState.chartInstance # "null"
    /\ listeners = 1
    /\ callbackRuns > 0
    /\ resizeCalls > 0

====
